---- MODULE Spec2Model ----
(***************************************************************************)
(* Vehicle path-finding on an occupancy grid: the motion-template cache    *)
(* (cell.rs), the cost model (cell.rs), the agent footprint (agent.rs),    *)
(* the occupancy grid (main.rs, bitarray.rs) and the best-first search     *)
(* (pathfind.rs), with the properties of spec.md stated over them.         *)
(*                                                                         *)
(* Vectors (IVec2) are pairs <<x, y>>.  Angles are kept in units of 1/32   *)
(* of a turn, so the heading resolutions modelled are the divisors 4, 8,   *)
(* 16 and 32 of 32 (main.rs uses 32, its tests use 8).  The template      *)
(* cache takes cos and sin scaled by 10000; the footprint is computed in   *)
(* f32 as the code does, from sizes given in 1/10000 of a cell.            *)
(***************************************************************************)
EXTENDS Integers, Sequences, FiniteSets, TLC

VARIABLES
    max_increments,   \* max_increments of the call at hand: of precompute, of
                      \* Agent::new, of pathfind
    arc,              \* arc of the call at hand
    cache,            \* NeighborCache.cache: one template list per heading
    bpc,              \* position of NeighborCache::precompute or of Agent::new
    kind,             \* "grid": pathfind's closures; "graph": an explicit graph
    graph,            \* the explicit graph, heuristic and goal set of kind "graph"
    grid,             \* State.grid
    agent,            \* State.agent
    start,            \* the start state handed to optimized_astar
    to,               \* the goal position of pathfind
    collide,          \* the lookups of the query that came upon the entry of a twin
    pops,             \* the states the query has popped so far, in order, where noted
    pc,               \* position of optimized_astar: "idle", "loop", "done"
    open_set,         \* the binary heap, as the set of its nodes
    came_from,        \* predecessor map
    g_score,          \* best-known-cost map
    arena,            \* every node allocated by the query
    result,           \* what the query returned
    round,            \* number of queries completed before the current one
    first,            \* what the first query returned
    walk,             \* a pose reached by template moves, with the cost so far
    call              \* the last call on the grid or its bit array, with its outcome

cacheVars == <<max_increments, arc, cache, bpc>>

problemVars == <<kind, graph, grid, agent, start, to, walk, call>>

searchVars == <<pc, open_set, came_from, g_score, arena, collide, pops, result, round, first>>

vars == <<max_increments, arc, cache, bpc, kind, graph, grid, agent, start, to,
          collide, pops, pc, open_set, came_from, g_score, arena, result, round, first, walk,
          call>>

--------------------------------------------------------------------------
(* Bounds of the model *)

\* largest arc a template cache is built for
MaxArc == 3

\* heading resolutions a template cache is built for
IncrementChoices == {4, 8, 16}

--------------------------------------------------------------------------
(* Small helpers *)

Abs(x) == IF x < 0 THEN -x ELSE x

Min2(a, b) == IF a <= b THEN a ELSE b

Max2(a, b) == IF a >= b THEN a ELSE b

Range(s) == {s[i] : i \in DOMAIN s}

\* cos(j * pi / 16) * 10000 for j = 0..8, rounded to the nearest integer
CosQuarter == <<10000, 9808, 9239, 8315, 7071, 5556, 3827, 1951, 0>>

\* cos of a32/32 of a turn, scaled by 10000 (Vec2::from_angle(angle).x)
Cos32(a32) ==
    LET a == a32 % 32
    IN  IF a <= 8 THEN CosQuarter[a + 1]
        ELSE IF a <= 16 THEN -CosQuarter[(16 - a) + 1]
        ELSE IF a <= 24 THEN -CosQuarter[(a - 16) + 1]
        ELSE CosQuarter[(32 - a) + 1]

\* sin of a32/32 of a turn, scaled by 10000 (Vec2::from_angle(angle).y)
Sin32(a32) == Cos32(a32 + 24)

\* f32::round of a value in [-1, 1] given scaled by 10000, as an integer
\* (halves round away from zero)
RoundUnit(c) == IF c >= 5000 THEN 1 ELSE IF c <= -5000 THEN -1 ELSE 0

\* rotation as f32 * increment_size, in 1/32 of a turn
Angle32(rotation, n) == (rotation * (32 \div n)) % 32

--------------------------------------------------------------------------
(* cell.rs: Cell and NeighborCache *)

\* Cell::clamp_rotation: one wrap step, not a modulo
clamp_rotation(rotation, n) ==
    IF rotation < 0 THEN n + rotation
    ELSE IF rotation >= n THEN rotation - n
    ELSE rotation

\* Cell::precompute_neighbor: the template entry (offset, heading, reverse)
precompute_neighbor(rotation, n, reverse) ==
    LET angle == Angle32(rotation, n) + (IF reverse THEN 16 ELSE 0)
        x == RoundUnit(Cos32(angle))
        y == RoundUnit(Sin32(angle))
    IN  << <<Max2(-1, Min2(1, x)), Max2(-1, Min2(1, y))>>, rotation, reverse >>

cardinal_directions ==
    << <<0, 1>>, <<1, 0>>, <<0, -1>>, <<-1, 0>>,
       <<1, 1>>, <<1, -1>>, <<-1, 1>>, <<-1, -1>> >>

RECURSIVE closest_scan(_, _, _, _, _)
\* the inner loop of precompute over increment: keeps the first increment of
\* strictly largest dot product, starting from increment 0 and dot -1.0
closest_scan(direction, n, increment, closest_increment, closest_dot) ==
    IF increment >= n THEN closest_increment
    ELSE LET a == Angle32(increment, n)
             dot == Cos32(a) * direction[1] + Sin32(a) * direction[2]
         IN  IF dot > closest_dot
             THEN closest_scan(direction, n, increment + 1, increment, dot)
             ELSE closest_scan(direction, n, increment + 1,
                               closest_increment, closest_dot)

\* NeighborCache.neighbor_xy_to_increment after the first loop of precompute
neighbor_xy_to_increment(n) ==
    [d \in Range(cardinal_directions) |-> closest_scan(d, n, 0, 0, -10000)]

\* the candidates pushed for one rotation: forward over [-arc, arc], then
\* reverse over [-2 arc, 2 arc]
candidates(rotation, n, a) ==
    [j \in 1..(2 * a + 1) |->
        precompute_neighbor(clamp_rotation(rotation + (j - a - 1), n), n, FALSE)]
    \o
    [j \in 1..(4 * a + 1) |->
        precompute_neighbor(clamp_rotation(rotation + (j - 2 * a - 1), n), n, TRUE)]

\* the filter without its third rule: reverse candidates are filtered like
\* forward ones
keep_rule_forward_only(entry, rotation, n) ==
    LET rotation_changed == entry[2] # rotation
        cardinal == \E d \in Range(cardinal_directions) :
                        closest_scan(d, n, 0, 0, -10000) = entry[2]
    IN  rotation_changed \/ cardinal

\* the filter without its second rule: a straight forward candidate is
\* never kept
keep_rule_no_cardinal(entry, rotation, n) ==
    LET rotation_changed == entry[2] # rotation
    IN  rotation_changed \/ entry[3]

\* the filter closure of precompute: turned, or straight along a cardinal
\* heading, or reverse
keep_rule(entry, rotation, n) ==
    LET rotation_changed == entry[2] # rotation
        cardinal == \E d \in Range(cardinal_directions) :
                        neighbor_xy_to_increment(n)[d] = entry[2]
    IN  rotation_changed \/ cardinal \/ entry[3]

\* the template list precompute pushes for one rotation
rotation_neighbors(rotation, n, a) ==
    LET Keep(e) == keep_rule(e, rotation, n)
    IN  SelectSeq(candidates(rotation, n, a), Keep)

\* NeighborCache::new_precomputed: the whole cache, headings 0..n-1 at 1..n
new_precomputed(n, a) == [r \in 1..n |-> rotation_neighbors(r - 1, n, a)]

\* NeighborCache::get
cache_get(c, rotation) ==
    IF rotation >= 0 /\ rotation < Len(c) THEN c[rotation + 1] ELSE <<>>

\* Cell::neighbors with the loop stopping one template early
neighbors_drop_last(cell, c) ==
    LET cached == cache_get(c, cell.rotation)
    IN  [i \in 1..(Len(cached) - 1) |->
            [position |-> <<cell.position[1] + cached[i][1][1],
                            cell.position[2] + cached[i][1][2]>>,
             rotation |-> cached[i][2],
             reverse  |-> cached[i][3]]]

\* Cell::neighbors: the templates of the pose's heading, translated
neighbors(cell, c) ==
    LET cached == cache_get(c, cell.rotation)
    IN  [i \in 1..Len(cached) |->
            [position |-> <<cell.position[1] + cached[i][1][1],
                            cell.position[2] + cached[i][1][2]>>,
             rotation |-> cached[i][2],
             reverse  |-> cached[i][3]]]

\* 10^6 * (0.75 * 9.81) * 16 / (pi * (40 * 0.27778)^2), rounded up: with the
\* turn angle j/32 of a turn, 1000 * (1 - max_safe_speed / initial_speed)
\* is at least c exactly when (1000 - c)^2 * j >= TurnLossK
TurnLossK == 303514

\* the closure speed_loss_fraction of Cell::cost, times 1000 and truncated
\* (`(speed_loss * 1000.0) as u32`), for a turn of j32/32 of a turn; a zero
\* turn gives an infinite safe speed, capped, hence no loss
speed_loss_table ==
    [j32 \in 0..16 |->
        IF j32 = 0 THEN 0
        ELSE LET m == CHOOSE k \in 0..1000 :
                        /\ (k * k * j32 >= TurnLossK \/ k = 1000)
                        /\ (k = 0 \/ (k - 1) * (k - 1) * j32 < TurnLossK)
             IN  1000 - m]

\* speed_loss_fraction of a turn of j32/32 of a turn, at most half a turn
speed_loss_milli(j32) == speed_loss_table[j32]

\* angle_difference(...).abs() of Cell::cost, in 1/32 of a turn
angle_diff32(rotation1, rotation2, n) ==
    LET d == (Angle32(rotation2, n) - Angle32(rotation1, n)) % 32
    IN  IF d > 16 THEN 32 - d ELSE d

\* IVec2 -> Vec2 distance_squared
distance_squared(p, q) ==
    (p[1] - q[1]) * (p[1] - q[1]) + (p[2] - q[2]) * (p[2] - q[2])

\* multiplier of a reverse arrival in Cell::cost
ReverseCost == 10

\* scale of angle_cost and of distance_cost in Cell::cost
CostScale == 1000

\* scale of the squared distance in Cell::heuristic
HeuristicScale == 10

\* Cell::cost with reverse_cost 1 on both branches
cost_reverse_free(to_cell, from, n) ==
    LET angle_cost == speed_loss_milli(angle_diff32(to_cell.rotation, from.rotation, n))
        distance_cost == distance_squared(to_cell.position, from.position) * CostScale
    IN  angle_cost + distance_cost

\* Cell::cost with reverse_cost applied to the angle cost alone
cost_reverse_turn_only(to_cell, from, n) ==
    LET reverse_cost == IF to_cell.reverse THEN ReverseCost ELSE 1
        angle_cost == speed_loss_milli(angle_diff32(to_cell.rotation, from.rotation, n))
        distance_cost == distance_squared(to_cell.position, from.position) * CostScale
    IN  angle_cost * reverse_cost + distance_cost

\* Cell::cost with from = Some(from)
cost(to_cell, from, n) ==
    LET reverse_cost == IF to_cell.reverse THEN ReverseCost ELSE 1
        angle_cost == speed_loss_milli(angle_diff32(to_cell.rotation, from.rotation, n))
        distance_cost == distance_squared(to_cell.position, from.position) * CostScale
    IN  (angle_cost + distance_cost) * reverse_cost

\* Cell::cost with from = None
cost_none(to_cell) == 0

\* Cell::heuristic
heuristic(cell, to_pos) == distance_squared(cell.position, to_pos) * HeuristicScale

--------------------------------------------------------------------------
(* bitarray.rs and the Grid of main.rs.  A BitArray is the set of its set  *)
(* bit positions, element * 32 + bit, together with num_bits.              *)

WordBits == 32

\* BitArray::new with the element count rounded down
BitArray_new_floor(num_bits) ==
    [bits |-> {}, num_bits |-> num_bits, num_elements |-> num_bits \div WordBits]

\* BitArray::new
BitArray_new(num_bits) ==
    [bits |-> {}, num_bits |-> num_bits,
     num_elements |-> (num_bits + 31) \div WordBits]

\* `self.bits[element]` with element = position / 32: the index panic of the
\* Vec when the element does not exist
element_missing(ba, position) == position \div WordBits >= ba.num_elements

\* BitArray::is_bit_set: ok = FALSE is the panic "Bit index out of range",
\* or the index panic of the Vec
is_bit_set(ba, position) ==
    IF position < ba.num_bits
    THEN [ok |-> ~element_missing(ba, position), value |-> position \in ba.bits]
    ELSE [ok |-> FALSE, value |-> FALSE]

\* BitArray::get_bool
get_bool(ba, position) == is_bit_set(ba, position)

\* BitArray::set_bit: silently nothing at or beyond num_bits
set_bit(ba, position) ==
    IF position < ba.num_bits
    THEN [ba EXCEPT !.bits = @ \cup {position}]
    ELSE ba

\* BitArray::clear_bit: silently nothing at or beyond num_bits
clear_bit(ba, position) ==
    IF position < ba.num_bits
    THEN [ba EXCEPT !.bits = @ \ {position}]
    ELSE ba

\* BitArray::toggle_bit: silently nothing at or beyond num_bits
toggle_bit(ba, position) ==
    IF position < ba.num_bits
    THEN [ba EXCEPT !.bits = (@ \ {position}) \cup ({position} \ @)]
    ELSE ba

\* BitArray::set_bool
set_bool(ba, position, value) ==
    IF value THEN set_bit(ba, position) ELSE clear_bit(ba, position)

\* whether set_bit, clear_bit, toggle_bit or set_bool panics: they return
\* without a word at or beyond num_bits, and index the Vec below it
write_panics(ba, position) ==
    position < ba.num_bits /\ element_missing(ba, position)

\* Grid::index: `(y * self.size.0 + x) as usize`.  A negative i32 converts to
\* a usize above 2^63, beyond every capacity; it is kept here as the largest
\* integer
grid_index(g, x, y) ==
    LET i == y * g.size[1] + x
    IN  IF i < 0 THEN 2147483647 ELSE i

\* Grid::is_cell_blocked with the bounds test one too wide
is_cell_blocked_loose(g, x, y) ==
    IF x < 0 \/ x > g.size[1] \/ y < 0 \/ y > g.size[2]
    THEN [ok |-> TRUE, value |-> TRUE]
    ELSE get_bool(g.cells, grid_index(g, x, y))

\* Grid::is_cell_blocked as a call: outside the grid is blocked, inside the
\* bit is read; ok = FALSE is the panic of get_bool
is_cell_blocked_call(g, x, y) ==
    IF x < 0 \/ x >= g.size[1] \/ y < 0 \/ y >= g.size[2]
    THEN [ok |-> TRUE, value |-> TRUE]
    ELSE get_bool(g.cells, grid_index(g, x, y))

\* the value Grid::is_cell_blocked returns
is_cell_blocked(g, x, y) == is_cell_blocked_call(g, x, y).value

\* Grid::toggle_cell writing `true` whatever the bit was
toggle_cell_sets(g, x, y) ==
    LET index == grid_index(g, x, y)
        existing == get_bool(g.cells, index)
    IN  IF existing.ok
        THEN [ok |-> ~write_panics(g.cells, index),
              grid |-> [g EXCEPT !.cells = set_bool(@, index, TRUE)]]
        ELSE [ok |-> FALSE, grid |-> g]

\* Grid::toggle_cell: ok = FALSE is the panic of get_bool, the grid untouched
toggle_cell(g, x, y) ==
    LET index == grid_index(g, x, y)
        existing == get_bool(g.cells, index)
    IN  IF existing.ok
        THEN [ok |-> ~write_panics(g.cells, index),
              grid |-> [g EXCEPT !.cells = set_bool(@, index, ~existing.value)]]
        ELSE [ok |-> FALSE, grid |-> g]

\* a grid of w x h cells with exactly the cells of `blocked` set
GridOf(w, h, blocked) ==
    [size  |-> <<w, h>>,
     cells |-> [BitArray_new(w * h) EXCEPT
                   !.bits = {p[2] * w + p[1] : p \in blocked}]]

--------------------------------------------------------------------------
(* agent.rs: the footprint cache.  The code computes in f32; an f32 value is
   the pair <<m, e>> of value m * 2^e with 2^23 <= |m| < 2^24, or <<0, 0>>,
   and every operation rounds to the nearest such value, ties to the even
   mantissa.  A size is given in 1/Unit of a cell and converted. *)

Unit == 10000

\* 2^k for k in 0..30
Pow2(k) == 2 ^ k

\* the one element of a one-element set: names a value once computed
The(S) == CHOOSE r \in S : TRUE

\* the number of binary digits of mag, 0 < mag < 2^30
BitLen(mag) ==
    The({ IF m >= Pow2(24)
          THEN CHOOSE k \in 25..30 : Pow2(k - 1) <= m /\ m < Pow2(k)
          ELSE CHOOSE k \in 1..24 : Pow2(k - 1) <= m /\ m < Pow2(k)
          : m \in {mag} })

F32Zero == <<0, 0>>

\* the f32 nearest to sgn * (mag + d) * 2^e, where 0 < d < 1 when sticky and
\* d = 0 otherwise; with sticky, mag has 26 digits or more
F32Pack(sgn, mag, e, sticky) ==
    The({ IF m = 0 THEN F32Zero
          ELSE The({ IF n <= 24
                     THEN <<s * m * Pow2(24 - n), x - (24 - n)>>
                     ELSE LET sh == n - 24
                              q == m \div Pow2(sh)
                              r == m % Pow2(sh)
                              half == Pow2(sh - 1)
                              up == r > half \/ (r = half /\ (sticky \/ q % 2 = 1))
                          IN  The({ IF q1 = Pow2(24) THEN <<s * Pow2(23), x + sh + 1>>
                                    ELSE <<s * q1, x + sh>>
                                    : q1 \in {IF up THEN q + 1 ELSE q} })
                     : n \in {BitLen(m)} })
          : s \in {sgn}, m \in {mag}, x \in {e} })

F32Sign(a) == IF a[1] < 0 THEN -1 ELSE 1

\* -a
F32Neg(a) == The({ <<-x[1], x[2]>> : x \in {a} })

\* a * b of f32: the 48-digit product from 12-digit halves, then rounded
F32Mul(a, b) ==
    The({ IF x[1] = 0 \/ y[1] = 0 THEN F32Zero
          ELSE The({ LET mid == ah * bl + al * bh
                     IN  The({ LET hi == ah * bh + mid \div 4096 + low \div Pow2(24)
                                   lo == low % Pow2(24)
                               IN  F32Pack(F32Sign(x) * F32Sign(y),
                                           hi * 4 + lo \div Pow2(22),
                                           x[2] + y[2] + 22, lo % Pow2(22) # 0)
                               : low \in {(mid % 4096) * 4096 + al * bl} })
                     : ah \in {Abs(x[1]) \div 4096}, al \in {Abs(x[1]) % 4096},
                       bh \in {Abs(y[1]) \div 4096}, bl \in {Abs(y[1]) % 4096} })
          : x \in {a}, y \in {b} })

\* a + b of f32: three guard digits, the digits shifted out of the smaller
\* operand kept as a set lowest digit
F32Add(a, b) ==
    The({ IF u[1] = 0 THEN v
          ELSE IF v[1] = 0 THEN u
          ELSE The({ IF d > 26 THEN x
                     ELSE LET yfull == Abs(y[1]) * 8
                              yq == yfull \div Pow2(d)
                              yj == IF yfull % Pow2(d) # 0 /\ yq % 2 = 0
                                    THEN yq + 1 ELSE yq
                          IN  The({ F32Pack(IF s < 0 THEN -1 ELSE 1, Abs(s),
                                            x[2] - 3, FALSE)
                                    : s \in {x[1] * 8 + F32Sign(y) * yj} })
                     : x \in {IF u[2] >= v[2] THEN u ELSE v},
                       y \in {IF u[2] >= v[2] THEN v ELSE u},
                       d \in {Abs(u[2] - v[2])} })
          : u \in {a}, v \in {b} })

\* a - b of f32
F32Sub(a, b) == F32Add(a, F32Neg(b))

\* a < b of f32
F32Lt(a, b) ==
    \E x \in {a}, y \in {b} :
        IF x[1] = 0 THEN y[1] > 0
        ELSE IF y[1] = 0 THEN x[1] < 0
        ELSE IF F32Sign(x) # F32Sign(y) THEN x[1] < 0
        ELSE IF x[1] > 0 THEN x[2] < y[2] \/ (x[2] = y[2] /\ x[1] < y[1])
        ELSE x[2] > y[2] \/ (x[2] = y[2] /\ x[1] < y[1])

\* f32::min and f32::max
F32Min(a, b) == The({ IF F32Lt(y, x) THEN y ELSE x : x \in {a}, y \in {b} })

F32Max(a, b) == The({ IF F32Lt(x, y) THEN y ELSE x : x \in {a}, y \in {b} })

\* `i as f32` of an integer below 2^24 in magnitude
F32FromInt(i) == The({ F32Pack(IF j < 0 THEN -1 ELSE 1, Abs(j), 0, FALSE) : j \in {i} })

RECURSIVE F32Quotient(_, _, _, _)
\* the binary digits of (q + r / den) * 2^e, extended until q has 26 digits
F32Quotient(q, r, den, e) ==
    IF q >= Pow2(25) THEN <<q, r, e>>
    ELSE IF 2 * r >= den THEN F32Quotient(2 * q + 1, 2 * r - den, den, e - 1)
    ELSE F32Quotient(2 * q, 2 * r, den, e - 1)

\* the f32 of the decimal v / Unit
F32FromFixed(v) ==
    The({ IF w = 0 THEN F32Zero
          ELSE The({ F32Pack(IF w < 0 THEN -1 ELSE 1, qre[1], qre[3], qre[2] # 0)
                     : qre \in {F32Quotient(Abs(w) \div Unit, Abs(w) % Unit, Unit, 0)} })
          : w \in {v} })

\* a / 2.0 of f32
F32Half(a) == The({ IF x[1] = 0 THEN F32Zero ELSE <<x[1], x[2] - 1>> : x \in {a} })

\* `a.round() as i32`: the nearest integer, halves away from zero
F32RoundInt(a) ==
    The({ IF x[1] = 0 THEN 0
          ELSE IF x[2] >= 0 THEN x[1] * Pow2(x[2])
          ELSE IF -x[2] > 24 THEN 0
          ELSE LET k == -x[2]
                   q == Abs(x[1]) \div Pow2(k)
                   r == Abs(x[1]) % Pow2(k)
               IN  F32Sign(x) * (IF r >= Pow2(k - 1) THEN q + 1 ELSE q)
          : x \in {a} })

F32One == <<8388608, -23>>

\* angle.cos() of the f32 angle 2.0 * PI * a32 / 32.0, listed for a32 = 0..31
\* as this build's f32 library gives it
F32Cos(a32) ==
    << <<8388608, -23>>, <<16454846, -24>>, <<15500126, -24>>, <<13949745, -24>>,
       <<11863283, -24>>, <<9320921, -24>>, <<12840725, -25>>, <<13092284, -26>>,
       <<-12303662, -48>>, <<-13092290, -26>>, <<-12840728, -25>>, <<-9320924, -24>>,
       <<-11863283, -24>>, <<-13949746, -24>>, <<-15500128, -24>>, <<-16454847, -24>>,
       <<-8388608, -23>>, <<-16454846, -24>>, <<-15500126, -24>>, <<-13949744, -24>>,
       <<-11863281, -24>>, <<-9320918, -24>>, <<-12840715, -25>>, <<-13092294, -26>>,
       <<13426222, -50>>, <<13092296, -26>>, <<12840731, -25>>, <<9320925, -24>>,
       <<11863287, -24>>, <<13949745, -24>>, <<15500127, -24>>, <<16454847, -24>>
    >>[(a32 % 32) + 1]

\* angle.sin() of the f32 angle 2.0 * PI * a32 / 32.0, listed for a32 = 0..31
F32Sin(a32) ==
    << <<0, 0>>, <<13092290, -26>>, <<12840726, -25>>, <<9320922, -24>>,
       <<11863283, -24>>, <<13949746, -24>>, <<15500126, -24>>, <<16454847, -24>>,
       <<8388608, -23>>, <<16454846, -24>>, <<15500126, -24>>, <<13949744, -24>>,
       <<11863283, -24>>, <<9320921, -24>>, <<12840720, -25>>, <<13092289, -26>>,
       <<-12303662, -47>>, <<-13092301, -26>>, <<-12840725, -25>>, <<-9320923, -24>>,
       <<-11863285, -24>>, <<-13949748, -24>>, <<-15500129, -24>>, <<-16454846, -24>>,
       <<-8388608, -23>>, <<-16454846, -24>>, <<-15500125, -24>>, <<-13949743, -24>>,
       <<-11863279, -24>>, <<-9320923, -24>>, <<-12840725, -25>>, <<-13092284, -26>>
    >>[(a32 % 32) + 1]

\* rotate of aabb_rect_collision, and Affine2::from_angle(..).transform_point2
\* (x * cos + (-sin) * y there, the same f32 value)
rotate(x, y, a32) ==
    The({ << F32Sub(F32Mul(vx, cos_theta), F32Mul(vy, sin_theta)),
             F32Add(F32Mul(vx, sin_theta), F32Mul(vy, cos_theta)) >>
          : vx \in {x}, vy \in {y},
            cos_theta \in {F32Cos(a32)}, sin_theta \in {F32Sin(a32)} })

\* dot of aabb_rect_collision
dot(ax, ay, bx, by) == F32Add(F32Mul(ax, bx), F32Mul(ay, by))

\* project_onto_axis: <<min, max>> of the projections of the four vertices
project_onto_axis(vertices, axis) ==
    The({ The({ << F32Min(F32Min(proj[1], proj[2]), F32Min(proj[3], proj[4])),
                   F32Max(F32Max(proj[1], proj[2]), F32Max(proj[3], proj[4])) >>
                : proj \in {<< dot(v[1][1], v[1][2], a[1], a[2]),
                               dot(v[2][1], v[2][2], a[1], a[2]),
                               dot(v[3][1], v[3][2], a[1], a[2]),
                               dot(v[4][1], v[4][2], a[1], a[2]) >>} })
          : v \in {vertices}, a \in {axis} })

\* aabb_rect_collision: separating-axis test of the unit cell at (aabb_x,
\* aabb_y) against the rotated rectangle; the arguments are f32 values and
\* rect_angle is the angle in 1/32 of a turn
aabb_rect_collision(aabb_x, aabb_y, rect_center_x, rect_center_y, rect_half_extents_x, rect_half_extents_y, rect_angle) ==
    \E ax \in {aabb_x}, ay \in {aabb_y}, cx \in {rect_center_x}, cy \in {rect_center_y},
       hx \in {rect_half_extents_x}, hy \in {rect_half_extents_y}, angle \in {rect_angle} :
    \E half_extents \in {<< <<hx, hy>>, <<hx, F32Neg(hy)>>,
                            <<F32Neg(hx), hy>>, <<F32Neg(hx), F32Neg(hy)>> >>} :
    \E rotated \in {<< rotate(half_extents[1][1], half_extents[1][2], angle),
                       rotate(half_extents[2][1], half_extents[2][2], angle),
                       rotate(half_extents[3][1], half_extents[3][2], angle),
                       rotate(half_extents[4][1], half_extents[4][2], angle) >>},
       ax1 \in {F32Add(ax, F32One)}, ay1 \in {F32Add(ay, F32One)},
       rect_axes \in {<< rotate(F32One, F32Zero, angle), rotate(F32Zero, F32One, angle) >>} :
    \E rect_vertices \in {<< <<F32Add(cx, rotated[1][1]), F32Add(cy, rotated[1][2])>>,
                             <<F32Add(cx, rotated[2][1]), F32Add(cy, rotated[2][2])>>,
                             <<F32Add(cx, rotated[3][1]), F32Add(cy, rotated[3][2])>>,
                             <<F32Add(cx, rotated[4][1]), F32Add(cy, rotated[4][2])>> >>},
       aabb_vertices \in {<< <<ax, ay>>, <<ax1, ay>>, <<ax, ay1>>, <<ax1, ay1>> >>},
       axes \in {rect_axes \o << <<F32One, F32Zero>>, <<F32Zero, F32One>> >>} :
        \A k \in 1..4 :
            \E r \in {project_onto_axis(rect_vertices, axes[k])},
               b \in {project_onto_axis(aabb_vertices, axes[k])} :
                ~(F32Lt(r[2], b[1]) \/ F32Lt(b[2], r[1]))

RECURSIVE footprint_scan(_, _, _, _, _, _, _)
\* the double loop of Agent::new over the cells of the bounding box, x outer
\* and y inner, pushing the cells that collide; half is the pair of f32
\* half_width and half_height
footprint_scan(x, y, min_y, max_x, max_y, half, a32) ==
    IF x > max_x THEN <<>>
    ELSE IF y > max_y
         THEN footprint_scan(x + 1, min_y, min_y, max_x, max_y, half, a32)
         ELSE (IF aabb_rect_collision(F32FromInt(x), F32FromInt(y),
                                      F32Half(F32One), F32Half(F32One),
                                      half[1], half[2], a32)
               THEN << <<x, y>> >> ELSE <<>>)
              \o footprint_scan(x, y + 1, min_y, max_x, max_y, half, a32)

\* one iteration of the loop of Agent::new: the footprint of one increment
footprint_of(size, increment, n) ==
    The({ The({ The({ footprint_scan(box[1], box[2], box[2], box[3], box[4], half, a32)
                      : box \in {<< F32RoundInt(F32Min(F32Min(tc[1][1], tc[2][1]),
                                                       F32Min(tc[3][1], tc[4][1]))),
                                    F32RoundInt(F32Min(F32Min(tc[1][2], tc[2][2]),
                                                       F32Min(tc[3][2], tc[4][2]))),
                                    F32RoundInt(F32Max(F32Max(tc[1][1], tc[2][1]),
                                                       F32Max(tc[3][1], tc[4][1]))),
                                    F32RoundInt(F32Max(F32Max(tc[1][2], tc[2][2]),
                                                       F32Max(tc[3][2], tc[4][2]))) >>} })
                : tc \in {<< rotate(F32Neg(half[1]), F32Neg(half[2]), a32),
                             rotate(half[1], F32Neg(half[2]), a32),
                             rotate(half[1], half[2], a32),
                             rotate(F32Neg(half[1]), half[2], a32) >>} })
          : half \in {<<F32Half(F32FromFixed(size[1])), F32Half(F32FromFixed(size[2]))>>},
            a32 \in {Angle32(increment, n)} })

\* Agent::new: the agent with its footprint of every increment
Agent_new(position, size, rotation, n) ==
    [position |-> position, size |-> size, rotation |-> rotation,
     max_increments |-> n,
     footprints_cache |-> [i \in 1..n |-> footprint_of(size, i - 1, n)]]

\* Agent::rotation_footprint; ok = FALSE is the index panic of the Vec
rotation_footprint(ag, rotation) ==
    IF rotation >= 0 /\ rotation < Len(ag.footprints_cache)
    THEN [ok |-> TRUE, cells |-> ag.footprints_cache[rotation + 1]]
    ELSE [ok |-> FALSE, cells |-> <<>>]

--------------------------------------------------------------------------
(* main.rs: the closures pathfind hands to optimized_astar *)

\* Cell::new
Cell_new(rotation, position, reverse) ==
    [position |-> position, rotation |-> rotation, reverse |-> reverse]

\* the footprint test of the neighbour closure: "clear" when every footprint
\* cell of the neighbour's heading, translated to its position, is free,
\* "blocked" when one is not, "panic" when the heading indexes outside the
\* footprint cache
footprint_free(g, ag, neigh) ==
    LET fp == rotation_footprint(ag, neigh.rotation)
    IN  IF ~fp.ok THEN "panic"
        ELSE IF \A i \in 1..Len(fp.cells) :
                    ~is_cell_blocked(g, fp.cells[i][1] + neigh.position[1],
                                        fp.cells[i][2] + neigh.position[2])
        THEN "clear" ELSE "blocked"

\* the filter without the footprint test
passable_cell_only(g, ag, neigh) ==
    IF is_cell_blocked(g, neigh.position[1], neigh.position[2])
    THEN "blocked" ELSE "clear"

\* the filter of the neighbour closure: own cell free, and only then the
\* footprint looked up and tested
passable(g, ag, neigh) ==
    IF is_cell_blocked(g, neigh.position[1], neigh.position[2])
    THEN "blocked" ELSE footprint_free(g, ag, neigh)

\* the neighbour closure of pathfind: the passable template moves of
\* `action`, each with its edge cost, in template order; ok = FALSE when the
\* closure panics on the footprint of one of them.  The verdicts are
\* computed once and bound to `verdict`
pathfind_neighbors(action) ==
    LET all == neighbors(action, cache)
        Verdicts == [i \in 1..Len(all) |-> passable(grid, agent, all[i])]
        Priced(verdict) ==
            LET Keep(i) == verdict[i] = "clear"
                kept == SelectSeq([i \in 1..Len(all) |-> i], Keep)
            IN  [ok   |-> \A i \in 1..Len(all) : verdict[i] # "panic",
                 list |-> [j \in 1..Len(kept) |->
                             <<all[kept[j]], cost(all[kept[j]], action, max_increments)>>]]
    IN  CHOOSE priced \in {Priced(verdict) : verdict \in {Verdicts}} : TRUE

\* the goal closure of pathfind: position equality only
pathfind_goal(action) == action.position = to

\* ARC and MAX_INCREMENTS of main.rs
ARC == 1

MAX_INCREMENTS == 32

\* CELL_COUNT of main.rs: SCREEN_SIZE / CELL_SIZE = (1600 / 16, 800 / 16)
CELL_COUNT == <<100, 50>>

\* PATHFIND_STATE_SIZE: the capacity hint pathfind passes as max_states, a
\* constant of the program whatever the grid and resolution of the query
PATHFIND_STATE_SIZE == CELL_COUNT[1] * CELL_COUNT[2] * MAX_INCREMENTS

--------------------------------------------------------------------------
(* pathfind.rs: optimized_astar over the closures of the problem at hand *)

neighbors_fn(s) ==
    IF kind = "grid" THEN pathfind_neighbors(s) ELSE [ok |-> TRUE, list |-> graph.nbrs[s]]

heuristic_fn(s) == IF kind = "grid" THEN heuristic(s, to) ELSE graph.heur[s]

goal_fn(s) == IF kind = "grid" THEN pathfind_goal(s) ELSE s \in graph.goals

\* AStarNode::new
AStarNode_new(state, g_cost, f_cost) ==
    [state |-> state, g_cost |-> g_cost, f_cost |-> f_cost]

\* the pose that differs from s in the reverse flag alone
Twin(s) == [s EXCEPT !.reverse = ~s.reverse]

\* impl Hash for Cell feeds position, rotation and reverse to the hasher,
\* impl PartialEq compares position and rotation only.  A lookup of k in a
\* map that holds no entry of k but one of its twin is made under the hash
\* of k: it misses the entry of the twin, unless the two hashes lead to the
\* same place of the table, where == then accepts the twin's entry
Faces(m, k) == kind = "grid" /\ k \notin DOMAIN m /\ Twin(k) \in DOMAIN m

\* at most this many lookups of one query come upon the entry of a twin
MaxTwinHits == 1

\* the entry of the map called `name` a lookup of k selects, `hits` being
\* the lookups <<name, k>> that come upon the entry of the twin of k
Key(name, m, k, hits) ==
    IF Faces(m, k) /\ <<name, k>> \in hits THEN Twin(k) ELSE k

\* the lookup of k in the map, if it is one that comes upon a twin's entry
Met(name, m, k, hits) ==
    IF Faces(m, k) /\ <<name, k>> \in hits THEN {<<name, k>>} ELSE {}

\* HashMap::insert: the value of the selected entry is replaced, its key
\* kept; a new entry is made when none is selected
Put(name, m, k, v, hits) ==
    [x \in DOMAIN m \cup {Key(name, m, k, hits)} |->
        IF x = Key(name, m, k, hits) THEN v ELSE m[x]]

\* HashMap::contains_key
Has(name, m, k, hits) == Key(name, m, k, hits) \in DOMAIN m

\* HashMap::get on a key the map holds, and Index
Get(name, m, k, hits) == m[Key(name, m, k, hits)]

RECURSIVE SubsetsUpTo(_, _)
\* the subsets of S of at most k elements
SubsetsUpTo(S, k) ==
    IF k <= 0 \/ S = {} THEN {{}}
    ELSE {{}} \cup UNION {{{c} \cup T : T \in SubsetsUpTo(S \ {c}, k - 1)} : c \in S}

\* the nodes BinaryHeap::pop may return: one of least f_cost.  impl Ord for
\* AStarNode compares f_cost alone, reversed; which of several nodes of
\* equal f_cost comes out is left to the heap
PopChoices(os) == {n \in os : \A m \in os : n.f_cost <= m.f_cost}

\* the test of the loop without the comparison of costs: only a state never
\* seen before is pushed
improves_unseen_only(gs, neighbor, tentative_g_score, hits) ==
    ~Has("g_score", gs, neighbor, hits)

\* the test `tentative_g_score < *g_score.get(&neighbor).unwrap_or(&u32::MAX)`
\* (every cost of the model is far below u32::MAX)
improves(gs, neighbor, tentative_g_score, hits) ==
    \/ ~Has("g_score", gs, neighbor, hits)
    \/ tentative_g_score < Get("g_score", gs, neighbor, hits)

\* the body of `for (neighbor, move_cost) in neighbors_fn(&current_state)`
\* on the bookkeeping st = [open_set, came_from, g_score, arena, met], met
\* being the lookups so far that came upon the entry of a twin
relax(st, current_state, neighbor, move_cost, hits) ==
    LET tentative_g_score == Get("g_score", st.g_score, current_state, hits) + move_cost
        seen == st.met \cup Met("g_score", st.g_score, neighbor, hits)
    IN  IF improves(st.g_score, neighbor, tentative_g_score, hits)
        THEN LET f_cost == tentative_g_score + heuristic_fn(neighbor)
                 neighbor_node == AStarNode_new(neighbor, tentative_g_score, f_cost)
             IN  [open_set  |-> st.open_set \cup {neighbor_node},
                  came_from |-> Put("came_from", st.came_from, neighbor, current_state, hits),
                  g_score   |-> Put("g_score", st.g_score, neighbor, tentative_g_score, hits),
                  arena     |-> st.arena \cup {neighbor_node},
                  met       |-> seen \cup Met("came_from", st.came_from, neighbor, hits)]
        ELSE [st EXCEPT !.met = seen]

RECURSIVE expand(_, _, _, _, _)
\* the whole for loop over the neighbour list nbrs, from index i on; the
\* bookkeeping after iteration i is computed once and bound to `next`
expand(st, current_state, nbrs, i, hits) ==
    IF i > Len(nbrs) THEN st
    ELSE CHOOSE out \in {expand(next, current_state, nbrs, i + 1, hits) :
                            next \in {relax(st, current_state, nbrs[i][1], nbrs[i][2], hits)}} : TRUE

\* the lookups of one expansion that find no entry of their key but one of
\* its twin
ExpandFaces(nbrs) ==
    {<<"g_score", nbrs[i][1]>> : i \in {j \in 1..Len(nbrs) : Faces(g_score, nbrs[j][1])}}
    \cup {<<"came_from", nbrs[i][1]>> : i \in {j \in 1..Len(nbrs) : Faces(came_from, nbrs[j][1])}}

RECURSIVE walk_back(_, _, _, _)
\* the loop `while let Some(next) = came_from.get(&current)`: path is the
\* states pushed after the goal state; seen holds the keys looked up so
\* far, and a key looked up a second time means that the lookups repeat
\* from there on and the loop never ends (ends = FALSE)
walk_back(cf, current, seen, hits) ==
    IF ~Has("came_from", cf, current, hits) THEN [path |-> <<>>, ends |-> TRUE]
    ELSE IF current \in seen THEN [path |-> <<>>, ends |-> FALSE]
    ELSE CHOOSE w \in {[path |-> <<Get("came_from", cf, current, hits)>> \o rest.path,
                        ends |-> rest.ends] :
                          rest \in {walk_back(cf, Get("came_from", cf, current, hits),
                                              seen \cup {current}, hits)}} : TRUE

\* the lookups of the predecessor walk from node that come upon the entry
\* of a twin
walk_met(cf, node, hits) ==
    LET back == walk_back(cf, node.state, {}, hits).path
    IN  UNION {Met("came_from", cf, s, hits) : s \in {node.state} \cup Range(back)}

\* the lookups of a predecessor walk that find no entry of their key but
\* one of its twin: keys of states pushed by the query
WalkFaces ==
    {<<"came_from", n.state>> : n \in {a \in arena : Faces(came_from, a.state)}}

\* Vec::reverse
Reverse(s) == [i \in 1..Len(s) |-> s[Len(s) + 1 - i]]

\* reconstruct without total_path.reverse()
reconstruct_unreversed(cf, node, hits) ==
    LET back == walk_back(cf, node.state, {}, hits)
    IN  IF ~back.ends
        THEN [kind |-> "hang", path |-> <<>>, cost |-> 0]
        ELSE [kind |-> "some", path |-> <<node.state>> \o back.path,
              cost |-> node.g_cost]

\* the value optimized_astar returns when the goal test holds of the popped
\* node, "hang" when the predecessor walk never ends
reconstruct(cf, node, hits) ==
    LET back == walk_back(cf, node.state, {}, hits)
    IN  IF ~back.ends
        THEN [kind |-> "hang", path |-> <<>>, cost |-> 0]
        ELSE [kind |-> "some", path |-> Reverse(<<node.state>> \o back.path),
              cost |-> node.g_cost]

Pending == [kind |-> "pending", path |-> <<>>, cost |-> 0]

None == [kind |-> "none", path |-> <<>>, cost |-> 0]

\* the neighbour closure panicked: the query is abandoned
Panicked == [kind |-> "panic", path |-> <<>>, cost |-> 0]

\* the search bookkeeping before any query
IdleSearch ==
    /\ pc = "idle"
    /\ open_set = {}
    /\ came_from = <<>>
    /\ g_score = <<>>
    /\ arena = {}
    /\ collide = {}
    /\ pops = <<>>
    /\ result = Pending
    /\ round = 0
    /\ first = [res |-> Pending, to |-> <<0, 0>>, start |-> <<>>, grid |-> <<>>,
                 pops |-> <<>>]

\* no problem at all (while the template cache is being built)
IdleProblem ==
    /\ kind = "none"
    /\ graph = <<>>
    /\ grid = GridOf(0, 0, {})
    /\ agent = <<>>
    /\ start = <<>>
    /\ to = <<0, 0>>
    /\ walk = <<>>
    /\ call = <<>>

\* optimized_astar up to the loop: fresh arena, heap and maps, the maps
\* with fresh hash keys, start pushed
StartQuery ==
    /\ pc = "idle"
    /\ LET start_node == AStarNode_new(start, 0, heuristic_fn(start))
       IN  /\ open_set' = {start_node}
           /\ arena' = {start_node}
    /\ came_from' = <<>>
    /\ g_score' = Put("g_score", <<>>, start, 0, {})
    /\ collide' = {}
    /\ pops' = <<>>
    /\ result' = Pending
    /\ pc' = "loop"
    /\ UNCHANGED <<round, first>>
    /\ UNCHANGED <<cacheVars, problemVars>>

\* one iteration of the loop whose popped node passes the goal test: the
\* path is rebuilt and returned, unless the predecessor walk never ends.
\* With track the popped state is noted in pops
GoalStep(track) ==
    /\ pc = "loop"
    /\ \E current_node \in PopChoices(open_set) :
        /\ goal_fn(current_node.state)
        /\ open_set' = open_set \ {current_node}
        /\ pops' = IF track THEN Append(pops, current_node.state) ELSE pops
        /\ \E new \in SubsetsUpTo(WalkFaces \ collide, MaxTwinHits - Cardinality(collide)) :
            \E res \in {reconstruct(came_from, current_node, collide \cup new)} :
                /\ new \subseteq walk_met(came_from, current_node, collide \cup new)
                /\ collide' = collide \cup new
                /\ result' = res
                /\ first' = IF round = 0
                            THEN [res |-> res, to |-> to, start |-> start,
                                  grid |-> grid, pops |-> pops']
                            ELSE first
                /\ pc' = IF res.kind = "hang" THEN "walk" ELSE "done"
    /\ UNCHANGED <<came_from, g_score, arena, round>>
    /\ UNCHANGED <<cacheVars, problemVars>>

\* one iteration of the loop whose popped node fails the goal test: all its
\* neighbours are relaxed, unless the neighbour closure panics.  With track
\* the popped state is noted in pops
ExpandStep(track) ==
    /\ pc = "loop"
    /\ \E current_node \in PopChoices(open_set) :
        /\ ~goal_fn(current_node.state)
        /\ pops' = IF track THEN Append(pops, current_node.state) ELSE pops
        /\ \E nbrs \in {neighbors_fn(current_node.state)} :
            IF ~nbrs.ok
            THEN /\ result' = Panicked
                 /\ pc' = "panic"
                 /\ open_set' = open_set \ {current_node}
                 /\ UNCHANGED <<came_from, g_score, arena, collide>>
            ELSE \E new \in SubsetsUpTo(ExpandFaces(nbrs.list) \ collide,
                                        MaxTwinHits - Cardinality(collide)) :
                    \E st \in {expand([open_set  |-> open_set \ {current_node},
                                        came_from |-> came_from,
                                        g_score   |-> g_score,
                                        arena     |-> arena,
                                        met       |-> {}],
                                       current_node.state, nbrs.list, 1, collide \cup new)} :
                        /\ new \subseteq st.met
                        /\ open_set' = st.open_set
                        /\ came_from' = st.came_from
                        /\ g_score' = st.g_score
                        /\ arena' = st.arena
                        /\ collide' = collide \cup new
                        /\ UNCHANGED <<pc, result>>
    /\ UNCHANGED <<round, first>>
    /\ UNCHANGED <<cacheVars, problemVars>>

PopGoal == GoalStep(FALSE)

PopExpand == ExpandStep(FALSE)

\* the same steps in a specification that compares the pops of two queries
PopGoalTracked == GoalStep(TRUE)

PopExpandTracked == ExpandStep(TRUE)

\* the open set is empty: optimized_astar returns None
Exhausted ==
    /\ pc = "loop"
    /\ open_set = {}
    /\ result' = None
    /\ first' = IF round = 0
                THEN [res |-> None, to |-> to, start |-> start, grid |-> grid,
                      pops |-> pops]
                ELSE first
    /\ pc' = "done"
    /\ UNCHANGED <<open_set, came_from, g_score, arena, collide, pops, round>>
    /\ UNCHANGED <<cacheVars, problemVars>>

NextSearch == StartQuery \/ PopGoal \/ PopExpand \/ Exhausted

--------------------------------------------------------------------------
(* Queries on a grid *)

\* width and height of the grid of the model
GridSize == <<3, 3>>

\* at most this many cells are blocked
MaxBlocked == 3

\* max_increment and arc of the queries (setup_state(8, 1) of the tests)
SearchIncrements == 8

SearchArc == 1

\* the cells of a w x h grid
CellsOf(w, h) == {<<x, y>> : x \in 0..(w - 1), y \in 0..(h - 1)}

\* the cells of the grid at hand
GridCells == CellsOf(grid.size[1], grid.size[2])

\* agent sizes: the tests' 0.01 x 0.01 (one cell at every heading),
\* 0.9 x 0.9 (one cell at the axis headings, a plus of five when diagonal)
\* and 1 x 1 (the cell and the eight around it at heading 0, two corner
\* cells fewer at the quarter turn, where the f32 cosine is not 0)
AgentSizes == {<<100, 100>>, <<9000, 9000>>, <<10000, 10000>>}

StartPositions == {<<0, 0>>}

StartRotations == {0, 1}

\* caches built for the tests' resolution and arc, one query about to run
InitQuery ==
    /\ max_increments = SearchIncrements
    /\ arc = SearchArc
    /\ cache = new_precomputed(SearchIncrements, SearchArc)
    /\ bpc = "built"
    /\ kind = "grid"
    /\ graph = <<>>
    /\ walk = <<>>
    /\ call = <<>>
    /\ IdleSearch

\* the state after setup and any number of toggles and agent moves: caches
\* built, some cells blocked, the agent somewhere, a goal clicked
InitGrid ==
    /\ InitQuery
    /\ \E size \in AgentSizes, p \in StartPositions, r \in StartRotations :
        /\ agent = Agent_new(p, size, r, SearchIncrements)
        /\ start = Cell_new(r, p, FALSE)
    /\ \E blocked \in SUBSET CellsOf(GridSize[1], GridSize[2]) :
        /\ Cardinality(blocked) <= MaxBlocked
        /\ grid = GridOf(GridSize[1], GridSize[2], blocked)
    /\ to \in CellsOf(GridSize[1], GridSize[2])

Spec == InitGrid /\ [][NextSearch]_vars

\* width and height of the grid of the queries that exhaust the open set
WideSize == <<4, 4>>

\* the blocked cell of the grid that is not empty
WideBlocked == <<3, 3>>

\* a click on a cell of an empty grid, or on the one blocked cell of the
\* grid: there the goal is out of reach and the query runs until the open
\* set is empty; or, as in test_pathfind_diagonal, a click on the far corner
\* of an empty grid, one cell longer and wider, the agent in the near corner
\* looking along the diagonal
InitWide ==
    /\ InitQuery
    /\ \/ /\ to \in CellsOf(WideSize[1], WideSize[2]) \ StartPositions
          /\ \E blocked \in {{}} \cup {{c} : c \in {to} \cap {WideBlocked}} :
                 grid = GridOf(WideSize[1], WideSize[2], blocked)
          /\ \E p \in StartPositions, r \in StartRotations :
              /\ agent = Agent_new(p, <<100, 100>>, r, SearchIncrements)
              /\ start = Cell_new(r, p, FALSE)
       \/ /\ to = WideSize
          /\ grid = GridOf(WideSize[1] + 1, WideSize[2] + 1, {})
          /\ \E p \in StartPositions :
              /\ agent = Agent_new(p, <<100, 100>>, 1, SearchIncrements)
              /\ start = Cell_new(1, p, FALSE)

SpecWide == InitWide /\ [][NextSearch]_vars

--------------------------------------------------------------------------
(* Queries on an explicit graph: optimized_astar is generic in its state   *)
(* type and closures                                                       *)

GraphNodes == {0, 1, 2, 3}

GraphGoal == CHOOSE n \in GraphNodes : \A m \in GraphNodes : m <= n

EdgeCosts == {1, 4}

HeurChoices == {0, 2, 6}

\* the edges that can matter: out of a node that is not the goal, into a
\* node that is not the start
EdgeSlots ==
    {e \in GraphNodes \X GraphNodes : e[1] # e[2] /\ e[1] # GraphGoal /\ e[2] # 0}

RECURSIVE SeqOfSet(_)
\* the elements of a set of pairs of integers in lexicographic order
SeqOfSet(S) ==
    IF S = {} THEN <<>>
    ELSE LET lo == CHOOSE e \in S : \A f \in S :
                        e[1] < f[1] \/ (e[1] = f[1] /\ e[2] <= f[2])
         IN  <<lo>> \o SeqOfSet(S \ {lo})

\* the neighbour lists of the graph whose edge e costs w[e] (absent if -1)
GraphOf(w, h) ==
    [nbrs |-> [n \in GraphNodes |->
                LET out == SeqOfSet({e \in EdgeSlots : e[1] = n /\ w[e] >= 0})
                IN  [i \in 1..Len(out) |-> <<out[i][2], w[out[i]]>>]],
     heur |-> h,
     goals |-> {GraphGoal}]

InitGraph ==
    /\ max_increments = 0
    /\ arc = 0
    /\ cache = <<>>
    /\ bpc = "built"
    /\ kind = "graph"
    /\ \E w \in [EdgeSlots -> EdgeCosts \cup {-1}],
          h \in [GraphNodes -> HeurChoices] :
        /\ h[0] = 0
        /\ graph = GraphOf(w, h)
    /\ grid = GridOf(0, 0, {})
    /\ agent = <<>>
    /\ start = 0
    /\ to = <<0, 0>>
    /\ walk = <<>>
    /\ call = <<>>
    /\ IdleSearch

SpecGraph == InitGraph /\ [][NextSearch]_vars

--------------------------------------------------------------------------
(* Repeated queries: update runs once a frame, toggles a cell on a left    *)
(* click, moves the agent on a middle click, calls pathfind with ARC and   *)
(* MAX_INCREMENTS on a right click and turns the agent while Space is down. *)
(* The arena, heap and maps of a call are gone once it has returned: the   *)
(* model keeps them until the next frame of update                         *)

\* queries run after the first one
MaxRequeries == 2

\* the goals clicked
RepeatGoals == {<<1, 1>>, <<2, 1>>}

\* the state setup_state(8, 1) builds on a small grid, and the first
\* right click: update calls pathfind(state, to, ARC, MAX_INCREMENTS)
InitRepeat ==
    /\ max_increments = MAX_INCREMENTS
    /\ arc = ARC
    /\ cache = new_precomputed(SearchIncrements, SearchArc)
    /\ bpc = "built"
    /\ kind = "grid"
    /\ graph = <<>>
    /\ walk = <<>>
    /\ call = <<>>
    /\ IdleSearch
    /\ grid = GridOf(GridSize[1], GridSize[2], {})
    /\ \E p \in StartPositions :
        /\ agent = Agent_new(p, <<100, 100>>, 0, SearchIncrements)
        /\ start = Cell_new(agent.rotation, agent.position, FALSE)
    /\ to \in RepeatGoals

\* update, left button: the cell under the mouse, a cell of the grid, is
\* toggled
LeftClick ==
    /\ pc = "done"
    /\ \E c \in {<<1, 2>>} : grid' = toggle_cell(grid, c[1], c[2]).grid
    /\ open_set' = {} /\ came_from' = <<>> /\ g_score' = <<>> /\ arena' = {}
    /\ collide' = {} /\ pops' = <<>>
    /\ UNCHANGED <<pc, result, round, first>>
    /\ UNCHANGED <<cacheVars, kind, graph, agent, start, to, walk, call>>

\* update, middle button: the agent is put on the cell under the mouse
MiddleClick ==
    /\ pc = "done"
    /\ \E p \in StartPositions \cup {<<1, 0>>} :
           agent' = [agent EXCEPT !.position = p]
    /\ open_set' = {} /\ came_from' = <<>> /\ g_score' = <<>> /\ arena' = {}
    /\ collide' = {} /\ pops' = <<>>
    /\ UNCHANGED <<pc, result, round, first>>
    /\ UNCHANGED <<cacheVars, kind, graph, grid, start, to, walk, call>>

\* update, Space down: the agent turns by one increment of MAX_INCREMENTS
SpaceDown ==
    /\ pc = "done"
    /\ agent' = [agent EXCEPT !.rotation = (@ + 1) % MAX_INCREMENTS]
    /\ open_set' = {} /\ came_from' = <<>> /\ g_score' = <<>> /\ arena' = {}
    /\ collide' = {} /\ pops' = <<>>
    /\ UNCHANGED <<pc, result, round, first>>
    /\ UNCHANGED <<cacheVars, kind, graph, grid, start, to, walk, call>>

\* update, right button: pathfind(state, to, ARC, MAX_INCREMENTS) runs
\* again, for the same or another goal, from the pose the agent has now
Requery ==
    /\ pc = "done"
    /\ round < MaxRequeries
    /\ round' = round + 1
    /\ to' \in RepeatGoals
    /\ arc' = ARC
    /\ max_increments' = MAX_INCREMENTS
    /\ start' = Cell_new(agent.rotation, agent.position, FALSE)
    /\ pc' = "idle"
    /\ open_set' = {} /\ came_from' = <<>> /\ g_score' = <<>> /\ arena' = {}
    /\ collide' = {} /\ pops' = <<>>
    /\ result' = Pending
    /\ UNCHANGED first
    /\ UNCHANGED <<cache, bpc, kind, graph, grid, agent, walk, call>>

NextRepeat ==
    \/ StartQuery \/ PopGoalTracked \/ PopExpandTracked \/ Exhausted
    \/ LeftClick \/ MiddleClick \/ SpaceDown \/ Requery

SpecRepeat == InitRepeat /\ [][NextRepeat]_vars

\* a later query with the start pose and goal of the first query, on the
\* grid of the first query, has returned or is in the predecessor walk that
\* never ends
Repeated ==
    /\ pc \in {"done", "walk"}
    /\ round > 0
    /\ to = first.to
    /\ start = first.start
    /\ grid = first.grid

\* C7, for two queries whose heaps handed out the same states in the same
\* order (the claim allows any order among equal f_cost): a later query with
\* the start pose and goal of the first one, on the same grid and caches,
\* returns, and returns the path and cost of the first one, whatever ran in
\* between
C7_SameResult == (Repeated /\ pops = first.pops) => result = first.res

--------------------------------------------------------------------------
(* Properties of a query on a grid *)

\* the blocked cells of the grid, read off the bit array
BlockedCells ==
    {p \in GridCells : (p[2] * grid.size[1] + p[1]) \in grid.cells.bits}

\* p lies inside the grid and its bit is clear
FreeCell(p) == p \in GridCells /\ p \notin BlockedCells

\* the pose's own cell and every cell of its footprint are free
PoseFree(pose) ==
    /\ FreeCell(pose.position)
    /\ LET fp == agent.footprints_cache[pose.rotation + 1]
       IN  \A i \in 1..Len(fp) :
               FreeCell(<<pose.position[1] + fp[i][1], pose.position[2] + fp[i][2]>>)

Returned == pc = "done" /\ result.kind = "some"

\* C1: every pose of a returned path other than the first has its own cell
\* inside the grid and not blocked, and every cell of the footprint of its
\* heading, translated to its position, inside the grid and not blocked
C1_PathPosesFree ==
    Returned => \A i \in 2..Len(result.path) : PoseFree(result.path[i])

\* C1 witness: a path of the 0.9 x 0.9 agent on a grid with blocked cells
\* that passes through a diagonal heading, where the footprint has five cells
C1_Witness ==
    /\ Returned
    /\ agent.size = <<9000, 9000>>
    /\ BlockedCells # {}
    /\ Len(result.path) >= 3
    /\ \E i \in 2..Len(result.path) : result.path[i].rotation = 1

\* q is p moved by one entry of templatesFor(p.heading)
TemplateEdge(p, q) ==
    \E i \in 1..Len(cache[p.rotation + 1]) :
        LET e == cache[p.rotation + 1][i]
        IN  /\ q.position[1] - p.position[1] = e[1][1]
            /\ q.position[2] - p.position[2] = e[1][2]
            /\ q.rotation = e[2]

\* C2: a returned path starts at the start state, ends at the goal position,
\* and each consecutive pair is a template move of the earlier pose
C2_PathShape ==
    Returned =>
        /\ result.path[1] = start
        /\ result.path[Len(result.path)].position = to
        /\ \A i \in 1..(Len(result.path) - 1) :
               TemplateEdge(result.path[i], result.path[i + 1])

\* C2 witness: a returned path of at least two moves
C2_Witness == Returned /\ Len(result.path) >= 3 /\ result.path[1] # result.path[3]

\* the poses one template move away from a pose of S, target cell and
\* footprint free
MoveTargets(S) ==
    {Cell_new(e[2], <<p.position[1] + e[1][1], p.position[2] + e[1][2]>>, e[3]) :
        <<p, e>> \in UNION {{<<p, cache[p.rotation + 1][i]>> :
                              i \in 1..Len(cache[p.rotation + 1])} : p \in S}}

RECURSIVE ReachFrom(_)
\* the poses reachable from the poses of S by passable template moves
ReachFrom(S) ==
    LET T == S \cup {q \in MoveTargets(S) : PoseFree(q)}
    IN  IF T = S THEN S ELSE ReachFrom(T)

GoalReachable == \E q \in ReachFrom({start}) : q.position = to

Around(p) ==
    {q \in GridCells : q # p /\ Abs(q[1] - p[1]) <= 1 /\ Abs(q[2] - p[2]) <= 1}

C5_OneEntryPerPose ==
    kind = "grid" =>
        \A m \in {DOMAIN g_score, DOMAIN came_from} :
            \A k1 \in m, k2 \in m :
                (k1.position = k2.position /\ k1.rotation = k2.rotation) => k1 = k2

\* C8: the best-known-cost map never holds more entries than width * height
\* * maxIncrements of the grid and caches of the query (the capacity hint
\* the program passes, PATHFIND_STATE_SIZE, is this product for the grid
\* and resolution of main.rs)
C8_WithinCapacity ==
    kind = "grid" =>
        Cardinality(DOMAIN g_score) <= grid.size[1] * grid.size[2] * max_increments

\* the direction straight ahead of the start pose in the scenarios of C15:
\* heading 0 looks along (1, 0), heading 1 along (1, 1)
Ahead == IF start.rotation = 0 THEN <<1, 0>> ELSE <<1, 1>>

\* the number of steps from the start to the goal when the goal lies
\* straight ahead of the start, 0 otherwise
StepsAhead ==
    LET ns == {n \in 1..(grid.size[1] + grid.size[2]) :
                  to = <<start.position[1] + n * Ahead[1],
                         start.position[2] + n * Ahead[2]>>}
    IN  IF ns = {} THEN 0 ELSE CHOOSE n \in ns : TRUE

\* C15: on an empty grid, with the goal n >= 1 steps straight ahead of the
\* start, the query whose loop has popped the goal returns a path, and the
\* path is start + i * d for i = 0..n, in order, each pose with the start
\* heading
C15_StraightAhead ==
    (pc \in {"done", "walk"} /\ kind = "grid" /\ start.rotation \in {0, 1}
        /\ BlockedCells = {} /\ StepsAhead >= 1) =>
        /\ result.kind = "some"
        /\ Len(result.path) = StepsAhead + 1
        /\ \A i \in 0..StepsAhead :
               /\ result.path[i + 1].position =
                      <<start.position[1] + i * Ahead[1],
                        start.position[2] + i * Ahead[2]>>
               /\ result.path[i + 1].rotation = start.rotation

--------------------------------------------------------------------------
(* The scenario of test_pathfind_reverse_better_arc: the goal lies beside    *)
(* the agent, across its heading                                             *)

\* width and height of the grid of the scenario
ReverseSize == <<8, 8>>

\* the agent's position and the goal clicked
ReverseStart == <<5, 5>>

ReverseGoal == <<5, 6>>

\* the cells next to p
Ring(p) ==
    {<<p[1] + dx, p[2] + dy>> : dx \in {-1, 0, 1}, dy \in {-1, 0, 1}} \ {p}

\* the empty grid of the test, or the agent walled in on all sides
InitReverse ==
    /\ InitQuery
    /\ \E blocked \in {{}, Ring(ReverseStart)} :
           grid = GridOf(ReverseSize[1], ReverseSize[2], blocked)
    /\ agent = Agent_new(ReverseStart, <<100, 100>>, 0, SearchIncrements)
    /\ start = Cell_new(0, ReverseStart, FALSE)
    /\ to = ReverseGoal

SpecReverse == InitReverse /\ [][NextSearch]_vars

--------------------------------------------------------------------------
(* A query as one synchronous run: optimized_astar is called and runs, no   *)
(* step of it waiting for anything, until it returns                        *)

SpecLive == InitGrid /\ [][NextSearch]_vars /\ WF_vars(NextSearch)

\* every node a step adds to the open set, for a state whose cost was
\* recorded before the step, carries a g_cost strictly below that cost
PushRule ==
    \A n \in open_set' \ open_set :
        Has("g_score", g_score, n.state, collide') =>
            n.g_cost < Get("g_score", g_score, n.state, collide')

\* optimized_astar has returned Some((path, cost)) or None
Finished == pc = "done" /\ result.kind \in {"some", "none"}

\* C20: every query on the grid terminates, returning a path or None: a
\* state is pushed again only when its best-known cost strictly decreases,
\* the query eventually returns, and the predecessor walk of a returned
\* path ends at the start
C20_Terminates ==
    /\ [][PushRule]_vars
    /\ [](Returned => result.path[1] = start)
    /\ <>Finished

--------------------------------------------------------------------------
(* Building the footprint cache, one increment of the loop of Agent::new     *)
(* per step                                                                  *)

\* widths and heights of the agents built: 0.01, 0.5, 0.9, 1, 1.5 and 2
\* cells
FootLengths == {100, 5000, 9000, 10000, 15000, 20000}

InitAgent ==
    /\ max_increments \in IncrementChoices
    /\ arc = 0
    /\ cache = <<>>
    /\ bpc = "footprints"
    /\ kind = "none"
    /\ graph = <<>>
    /\ grid = GridOf(0, 0, {})
    /\ \E w \in FootLengths, h \in FootLengths :
           agent = [position |-> <<0, 0>>, size |-> <<w, h>>, rotation |-> 0,
                    max_increments |-> max_increments, footprints_cache |-> <<>>]
    /\ start = <<>>
    /\ to = <<0, 0>>
    /\ walk = <<>>
    /\ call = <<>>
    /\ IdleSearch

\* one iteration of `for increment in 0..max_increments`
FootprintIncrement ==
    /\ bpc = "footprints"
    /\ Len(agent.footprints_cache) < max_increments
    /\ agent' = [agent EXCEPT !.footprints_cache =
                    Append(@, footprint_of(agent.size, Len(@), max_increments))]
    /\ UNCHANGED <<cacheVars, searchVars, kind, graph, grid, start, to,
                   walk, call>>

\* the loop ends and Agent::new returns the agent
FootprintDone ==
    /\ bpc = "footprints"
    /\ Len(agent.footprints_cache) = max_increments
    /\ agent = Agent_new(agent.position, agent.size, agent.rotation, max_increments)
    /\ bpc' = "agent built"
    /\ UNCHANGED <<max_increments, arc, cache>>
    /\ UNCHANGED <<problemVars, searchVars>>

NextAgent == FootprintIncrement \/ FootprintDone

SpecAgent == InitAgent /\ [][NextAgent]_vars

\* C17: the agent with half-extents (0.75, 0.75) has, at heading 0, the
\* footprint {(0,0), (0,1), (1,0), (1,1)}
C17_FootprintOfThreeQuarters ==
    (bpc = "agent built" /\ agent.size = <<15000, 15000>>) =>
        Range(rotation_footprint(agent, 0).cells) =
            {<<0, 0>>, <<0, 1>>, <<1, 0>>, <<1, 1>>}

--------------------------------------------------------------------------
(* Calls on the grid and on its bit array: left clicks (toggle_cell), the    *)
(* reads of the search and of draw (is_cell_blocked), and the operations of  *)
(* BitArray on the grid's cells                                              *)

\* grid sizes: 6 bits, 32 bits (a whole word) and 33 bits (a word and a bit)
OpsSizes == {<<3, 2>>, <<8, 4>>, <<11, 3>>}

\* at most this many bits are set
MaxSetBits == 3

\* the columns and rows called with: the borders, and one step outside them
OpsX(g) == {-1, 0, 1, g.size[1] - 1, g.size[1]}

OpsY(g) == {-1, 0, g.size[2] - 1, g.size[2]}

\* the bit positions called with: around the capacity and around the words
BitPositions(ba) ==
    {p \in {0, 2, ba.num_bits - 1, ba.num_bits, ba.num_bits + 1, 31, 32, 63, 64} :
        p >= 0}

BitWrites == {"set_bit", "clear_bit", "toggle_bit", "set_bool_true", "set_bool_false"}

\* the bit array after the write op at position
bit_write(op, ba, position) ==
    IF op = "set_bit" THEN set_bit(ba, position)
    ELSE IF op = "clear_bit" THEN clear_bit(ba, position)
    ELSE IF op = "toggle_bit" THEN toggle_bit(ba, position)
    ELSE IF op = "set_bool_true" THEN set_bool(ba, position, TRUE)
    ELSE set_bool(ba, position, FALSE)

InitOps ==
    /\ max_increments = 0
    /\ arc = 0
    /\ cache = <<>>
    /\ bpc = "built"
    /\ kind = "none"
    /\ graph = <<>>
    /\ \E size \in OpsSizes : grid = GridOf(size[1], size[2], {})
    /\ agent = <<>>
    /\ start = <<>>
    /\ to = <<0, 0>>
    /\ walk = <<>>
    /\ call = <<>>
    /\ IdleSearch

\* update on a left click: state.grid.toggle_cell(grid_x, grid_y)
ToggleCell ==
    /\ \E x \in OpsX(grid), y \in OpsY(grid) :
        LET r == toggle_cell(grid, x, y)
        IN  /\ Cardinality(r.grid.cells.bits) <= MaxSetBits
            /\ grid' = r.grid
            /\ call' = [op |-> "toggle_cell", x |-> x, y |-> y, before |-> grid,
                        ok |-> r.ok, value |-> FALSE]
    /\ UNCHANGED <<cacheVars, searchVars, kind, graph, agent, start, to, walk>>

\* a read of the grid: state.grid.is_cell_blocked(x, y)
ProbeCell ==
    /\ \E x \in OpsX(grid), y \in OpsY(grid) :
        LET r == is_cell_blocked_call(grid, x, y)
        IN  call' = [op |-> "is_cell_blocked", x |-> x, y |-> y, before |-> grid,
                     ok |-> r.ok, value |-> r.value]
    /\ UNCHANGED <<cacheVars, searchVars, kind, graph, grid, agent, start, to,
                   walk>>

\* set_bit, clear_bit, toggle_bit or set_bool on the grid's cells
BitWrite ==
    /\ \E op \in BitWrites, position \in BitPositions(grid.cells) :
        LET after == bit_write(op, grid.cells, position)
        IN  /\ Cardinality(after.bits) <= MaxSetBits
            /\ grid' = [grid EXCEPT !.cells = after]
            /\ call' = [op |-> op, x |-> position, y |-> 0, before |-> grid,
                        ok |-> ~write_panics(grid.cells, position), value |-> FALSE]
    /\ UNCHANGED <<cacheVars, searchVars, kind, graph, agent, start, to, walk>>

\* get_bool on the grid's cells
BitRead ==
    /\ \E position \in BitPositions(grid.cells) :
        LET r == get_bool(grid.cells, position)
        IN  call' = [op |-> "get_bool", x |-> position, y |-> 0, before |-> grid,
                     ok |-> r.ok, value |-> r.value]
    /\ UNCHANGED <<cacheVars, searchVars, kind, graph, grid, agent, start, to,
                   walk>>

NextOps == ToggleCell \/ ProbeCell \/ BitWrite \/ BitRead

SpecOps == InitOps /\ [][NextOps]_vars

\* the last call was op
Called(op) == call # <<>> /\ call.op = op

\* (x, y) lies inside the grid g
Inside(g, x, y) == x >= 0 /\ x < g.size[1] /\ y >= 0 /\ y < g.size[2]

\* the bit of cell (x, y) of g is set
BitOfCell(g, x, y) == (y * g.size[1] + x) \in g.cells.bits

\* C11: is_cell_blocked(x, y) returns true exactly when (x, y) lies outside
\* the grid or the bit at index y * width + x is set, and never panics
C11_BlockedIffOutsideOrSet ==
    Called("is_cell_blocked") =>
        /\ call.ok
        /\ call.value <=> (~Inside(call.before, call.x, call.y)
                              \/ BitOfCell(call.before, call.x, call.y))

\* C11 witness: a read one column right of the grid returned true although
\* the bit its index would alias, that of cell (0, 1), is clear, on a grid
\* with blocked cells
C11_Witness ==
    /\ Called("is_cell_blocked")
    /\ call.x = grid.size[1] /\ call.y = 0
    /\ call.ok /\ call.value
    /\ grid.cells.bits # {}
    /\ ~BitOfCell(grid, 0, 1)

\* C12: toggle_cell on a cell inside the grid inverts the bit of that cell
\* and of no other, and a second toggle restores the grid; toggle_bit below
\* the capacity flips that bit and no other
C12_ToggleFlipsOneCell ==
    /\ (Called("toggle_cell") /\ Inside(call.before, call.x, call.y)) =>
            /\ call.ok
            /\ \A c \in GridCells :
                   BitOfCell(grid, c[1], c[2]) <=>
                       (BitOfCell(call.before, c[1], c[2]) # (c = <<call.x, call.y>>))
            /\ grid.cells.num_bits = call.before.cells.num_bits
            /\ toggle_cell(grid, call.x, call.y).grid = call.before
    /\ (Called("toggle_bit") /\ call.x < call.before.cells.num_bits) =>
            /\ call.ok
            /\ \A q \in 0..(grid.cells.num_bits - 1) :
                   (q \in grid.cells.bits) <=>
                       ((q \in call.before.cells.bits) # (q = call.x))
            /\ toggle_bit(grid.cells, call.x) = call.before.cells

\* C12 witness: a blocked cell inside the grid was toggled free while another
\* cell stays blocked
C12_Witness ==
    /\ Called("toggle_cell")
    /\ Inside(call.before, call.x, call.y)
    /\ BitOfCell(call.before, call.x, call.y)
    /\ ~BitOfCell(grid, call.x, call.y)
    /\ grid.cells.bits # {}

\* C13: get_bool panics at every index at or beyond the bit count, whatever
\* the capacity, and at no index below it
C13_ReadFailsFast ==
    Called("get_bool") => (call.ok <=> call.x < call.before.cells.num_bits)

\* C13 witness: on the 33-bit array the read at 33 panicked, inside the
\* second word of the Vec
C13_Witness ==
    /\ Called("get_bool")
    /\ grid.cells.num_bits = 33
    /\ call.x = 33
    /\ ~call.ok

\* C14: a write at an index at or beyond the bit count panics
C14_WriteFailsFast ==
    (call # <<>> /\ call.op \in BitWrites /\ call.x >= call.before.cells.num_bits)
        => ~call.ok

\* C22: a toggle_cell(x, y) with (x, y) outside the grid leaves the blocked
\* status of every cell inside the grid as it was
C22_OutsideToggleKeepsGrid ==
    (Called("toggle_cell") /\ ~Inside(call.before, call.x, call.y)) =>
        \A x \in 0..(grid.size[1] - 1), y \in 0..(grid.size[2] - 1) :
            is_cell_blocked(grid, x, y) = is_cell_blocked(call.before, x, y)

--------------------------------------------------------------------------
(* Properties of the search on any graph *)

\* the cost of the edge from p to q: on the grid Cell::cost of the pair, as
\* the neighbour closure prices it; on a graph the cost neighbors_fn(p)
\* lists for q (each of the model's neighbour lists names a state at most
\* once)
EdgeCost(p, q) ==
    IF kind = "grid" THEN cost(q, p, max_increments)
    ELSE LET nbrs == neighbors_fn(p).list
             i == CHOOSE j \in 1..Len(nbrs) : nbrs[j][1] = q
         IN  nbrs[i][2]

RECURSIVE PathCost(_, _)
\* the sum of the edge costs of the consecutive pairs of path, from index i
PathCost(path, i) ==
    IF i >= Len(path) THEN 0
    ELSE EdgeCost(path[i], path[i + 1]) + PathCost(path, i + 1)

\* C4: the returned totalCost is the sum of the edge costs along the
\* returned path
C4_CostIsPathSum ==
    Returned => result.cost = PathCost(result.path, 1)

--------------------------------------------------------------------------
(* Optimality of the search on graphs with edges of cost zero and more and  *)
(* with one or two goal states                                              *)

\* the edge costs of these graphs
OptimalCosts == {0, 1, 3}

\* the values the heuristic takes on these graphs
OptimalHeurs == {0, 1, 3}

\* the sets of states the goal test accepts
GoalSets == {{GraphGoal}, {GraphGoal - 1, GraphGoal}}

\* a cost no path of the graph reaches
Unreachable == 1000

RECURSIVE Remaining(_, _)
\* the least total edge cost of a path of at most k edges from n to a state
\* satisfying the goal test, Unreachable if there is none
Remaining(n, k) ==
    IF n \in graph.goals THEN 0
    ELSE IF k = 0 THEN Unreachable
    ELSE LET nbrs == graph.nbrs[n]
             via == {Min2(Unreachable, nbrs[i][2] + Remaining(nbrs[i][1], k - 1)) :
                        i \in 1..Len(nbrs)} \cup {Unreachable}
         IN  CHOOSE c \in via : \A d \in via : c <= d

\* the true remaining cost of n: a cheapest path repeats no state
TrueCost(n) == Remaining(n, Cardinality(GraphNodes) - 1)

\* the heuristic never exceeds the true remaining cost
Admissible == \A n \in GraphNodes : graph.heur[n] <= TrueCost(n)

\* a graph, a goal test and a heuristic that is zero at the start and at the
\* last goal state, admissible or not elsewhere
InitOptimal ==
    /\ max_increments = 0
    /\ arc = 0
    /\ cache = <<>>
    /\ bpc = "built"
    /\ kind = "graph"
    /\ \E w \in [EdgeSlots -> OptimalCosts \cup {-1}],
          h \in [GraphNodes -> OptimalHeurs],
          goals \in GoalSets :
        /\ h[0] = 0
        /\ h[GraphGoal] = 0
        /\ graph = [GraphOf(w, h) EXCEPT !.goals = goals]
    /\ grid = GridOf(0, 0, {})
    /\ agent = <<>>
    /\ start = 0
    /\ to = <<0, 0>>
    /\ walk = <<>>
    /\ call = <<>>
    /\ IdleSearch

SpecOptimal == InitOptimal /\ [][NextSearch]_vars

\* C21: on a graph with non-negative edge costs whose heuristic never
\* exceeds the true remaining cost, a finished search returns None exactly
\* when no goal state can be reached, and otherwise a totalCost equal to the
\* least total edge cost of a path from the start to a goal state
C21_ReturnsMinimumCost ==
    (kind = "graph" /\ pc = "done" /\ Admissible) =>
        IF TrueCost(start) = Unreachable
        THEN result.kind = "none"
        ELSE result.kind = "some" /\ result.cost = TrueCost(start)

\* C21 witness: an admissible heuristic that is not consistent, a state
\* pushed twice, the second time at a lower cost, and the least cost
\* returned along a path of three edges
C21_Witness ==
    /\ kind = "graph" /\ pc = "done" /\ Admissible
    /\ result.kind = "some"
    /\ Len(result.path) = 4
    /\ result.cost = TrueCost(start)
    /\ \E n \in arena, m \in arena : n.state = m.state /\ m.g_cost < n.g_cost
    /\ \E n \in GraphNodes : \E i \in 1..Len(graph.nbrs[n]) :
            graph.heur[n] > graph.nbrs[n][i][2] + graph.heur[graph.nbrs[n][i][1]]

--------------------------------------------------------------------------
(* Template moves on an empty grid, with their accumulated cost: every     *)
(* sequence of moves from the start pose, hence the cheapest one too       *)

\* width and height of the empty grid walked on
WalkSize == <<103, 1>>

\* a walk stops once it costs more than this
MaxWalkCost == 103000

InitWalk ==
    /\ max_increments = SearchIncrements
    /\ arc = SearchArc
    /\ cache = new_precomputed(SearchIncrements, SearchArc)
    /\ bpc = "built"
    /\ kind = "grid"
    /\ graph = <<>>
    /\ grid = GridOf(WalkSize[1], WalkSize[2], {})
    /\ \E p \in StartPositions, r \in StartRotations :
        /\ agent = Agent_new(p, <<100, 100>>, r, SearchIncrements)
        /\ start = Cell_new(r, p, FALSE)
        /\ walk = [pose |-> Cell_new(r, p, FALSE), cost |-> 0]
    /\ to = <<0, 0>>
    /\ call = <<>>
    /\ IdleSearch

\* one more template move, passable as the neighbour closure requires, at
\* the cost Cell::cost gives it
WalkMove ==
    /\ walk.cost <= MaxWalkCost
    /\ \E i \in 1..Len(pathfind_neighbors(walk.pose).list) :
        LET nb == pathfind_neighbors(walk.pose).list[i]
        IN  walk' = [pose |-> nb[1], cost |-> walk.cost + nb[2]]
    /\ UNCHANGED <<cacheVars, searchVars, kind, graph, grid, agent, start, to,
                   call>>

NextWalk == WalkMove

SpecWalk == InitWalk /\ [][NextWalk]_vars

\* C6: the heuristic of the start pose towards any position never exceeds
\* the cost of a sequence of template moves from the start pose to that
\* position on the empty grid
C6_HeuristicLowerBound ==
    walk # <<>> => heuristic(start, walk.pose.position) <= walk.cost

--------------------------------------------------------------------------
(* Calls of Cell::cost on poses of a small square, the arriving pose in    *)
(* start and the predecessor, if any, in walk                              *)

\* positions of the poses Cell::cost is called on
CostPositions == (0..2) \X (0..2)

\* positions of the predecessor poses
CostFromPositions == {<<0, 0>>, <<1, 1>>}

\* the poses with a heading of the resolution n at the positions P
CostPoses(P, n) == {Cell_new(r, p, rev) : r \in 0..(n - 1), p \in P, rev \in BOOLEAN}

InitCost ==
    /\ max_increments \in IncrementChoices
    /\ arc = SearchArc
    /\ cache = <<>>
    /\ bpc = "built"
    /\ kind = "none"
    /\ graph = <<>>
    /\ grid = GridOf(0, 0, {})
    /\ agent = <<>>
    /\ start \in CostPoses(CostPositions, max_increments)
    /\ to = <<0, 0>>
    /\ walk \in {<<>>} \cup {[pose |-> f, cost |-> 0] : f \in CostPoses(CostFromPositions, max_increments)}
    /\ call = <<>>
    /\ IdleSearch

\* start.cost(Some(walk.pose), arc, max_increments)
CostSome ==
    /\ call = <<>>
    /\ walk # <<>>
    /\ call' = [op |-> "cost", to |-> start, from |-> walk.pose,
                value |-> cost(start, walk.pose, max_increments)]
    /\ UNCHANGED <<cacheVars, searchVars, kind, graph, grid, agent, start, to,
                   walk>>

\* start.cost(None, arc, max_increments)
CostNone ==
    /\ call = <<>>
    /\ walk = <<>>
    /\ call' = [op |-> "cost", to |-> start, from |-> <<>>, value |-> cost_none(start)]
    /\ UNCHANGED <<cacheVars, searchVars, kind, graph, grid, agent, start, to,
                   walk>>

NextCost == CostSome \/ CostNone

SpecCost == InitCost /\ [][NextCost]_vars

\* C18: the cost of arriving without a predecessor is 0; with a predecessor
\* a forward arrival costs the turn cost plus CostScale times the squared
\* distance, and a reverse arrival costs exactly ReverseCost (a constant
\* not below 1) times the forward arrival at the same position and heading
\* from the same predecessor
C18_CostFormula ==
    (call # <<>> /\ call.op = "cost") =>
        IF call.from = <<>> THEN call.value = 0
        ELSE LET turn == speed_loss_milli(angle_diff32(call.to.rotation, call.from.rotation, max_increments))
                 d2 == distance_squared(call.to.position, call.from.position)
                 forward == cost([call.to EXCEPT !.reverse = FALSE], call.from, max_increments)
             IN  /\ ReverseCost >= 1
                 /\ forward = turn + CostScale * d2
                 /\ call.value = IF call.to.reverse THEN ReverseCost * forward ELSE forward

\* a reverse arrival after a turn and a move, at a cost that is not zero
C18_Witness ==
    /\ call # <<>> /\ call.op = "cost"
    /\ call.from # <<>>
    /\ call.to.reverse
    /\ call.to.rotation # call.from.rotation
    /\ call.to.position # call.from.position
    /\ call.value > ReverseCost * CostScale

--------------------------------------------------------------------------
(* Building the template cache, one rotation of the outer loop per step *)

InitCache ==
    /\ max_increments \in IncrementChoices
    /\ arc \in 0..MaxArc
    /\ cache = <<>>
    /\ bpc = "rotations"
    /\ IdleProblem
    /\ IdleSearch

\* one iteration of `for rotation in 0..max_increments`
PrecomputeRotation ==
    /\ bpc = "rotations"
    /\ Len(cache) < max_increments
    /\ cache' = Append(cache, rotation_neighbors(Len(cache), max_increments, arc))
    /\ UNCHANGED <<max_increments, arc, bpc>>
    /\ UNCHANGED <<problemVars, searchVars>>

\* the loop ends and new_precomputed returns the cache
PrecomputeDone ==
    /\ bpc = "rotations"
    /\ Len(cache) = max_increments
    /\ bpc' = "built"
    /\ UNCHANGED <<max_increments, arc, cache>>
    /\ UNCHANGED <<problemVars, searchVars>>

NextCache == PrecomputeRotation \/ PrecomputeDone

SpecCache == InitCache /\ [][NextCache]_vars

\* templatesFor(h) of the cache built so far
templatesFor(h) == cache_get(cache, h)

\* C9: once the cache is built, templatesFor(h) is non-empty for every
\* heading h in [0, maxIncrements) and no entry has the offset (0, 0)
C9_TemplatesNonEmpty ==
    bpc = "built" =>
        \A h \in 0..(max_increments - 1) :
            /\ Len(templatesFor(h)) > 0
            /\ \A i \in 1..Len(templatesFor(h)) : templatesFor(h)[i][1] # <<0, 0>>

\* C9 witness: a built cache with arc 0 and a heading that is not cardinal,
\* whose only candidates are the straight forward and the straight reverse one
C9_Witness ==
    /\ bpc = "built"
    /\ max_increments = 16
    /\ arc = 0
    /\ Len(templatesFor(1)) = 1
    /\ templatesFor(1)[1][3]

\* C10: every entry of templatesFor(h) has its target heading in
\* [0, maxIncrements), equal to (h + i) mod maxIncrements for some i with
\* |i| <= arc for a forward entry and |i| <= 2 arc for a reverse entry
C10_TargetHeadingModular ==
    bpc = "built" =>
        \A h \in 0..(max_increments - 1) :
            \A k \in 1..Len(templatesFor(h)) :
                LET e == templatesFor(h)[k]
                    lim == IF e[3] THEN 2 * arc ELSE arc
                IN  /\ e[2] \in 0..(max_increments - 1)
                    /\ \E i \in (-lim)..lim : e[2] = (h + i) % max_increments

\* the headings recorded for the eight compass directions
CardinalHeadings(n) == {neighbor_xy_to_increment(n)[d] : d \in Range(cardinal_directions)}

\* the forward entries of templatesFor(h) that keep the heading h
StraightForward(h) ==
    {i \in 1..Len(templatesFor(h)) : templatesFor(h)[i][2] = h /\ ~templatesFor(h)[i][3]}

\* the reverse entries of templatesFor(h)
ReverseEntries(h) == {i \in 1..Len(templatesFor(h)) : templatesFor(h)[i][3]}

\* C19: templatesFor(h) is the candidate list of h restricted, in order, to
\* the candidates whose target heading differs from h, or is a cardinal
\* heading, or that are reverse moves; so a forward entry keeping the heading
\* h is present exactly when h is a cardinal heading, and all the 4 arc + 1
\* reverse candidates are present
C19_FilterRule ==
    bpc = "built" =>
        \A h \in 0..(max_increments - 1) :
            LET Kept(e) == \/ e[2] # h
                           \/ e[2] \in CardinalHeadings(max_increments)
                           \/ e[3]
            IN  /\ templatesFor(h) = SelectSeq(candidates(h, max_increments, arc), Kept)
                /\ (StraightForward(h) # {}) <=> (h \in CardinalHeadings(max_increments))
                /\ Cardinality(ReverseEntries(h)) = 4 * arc + 1

\* C19 witness: a built cache of 16 headings with arc 1, where the cardinal
\* heading 0 keeps its straight forward entry and the heading 1 between two
\* cardinal ones loses it, both keeping two turns and five reverse entries
C19_Witness ==
    /\ bpc = "built"
    /\ max_increments = 16
    /\ arc = 1
    /\ StraightForward(0) # {}
    /\ StraightForward(1) = {}
    /\ Len(templatesFor(0)) = 8
    /\ Len(templatesFor(1)) = 7

====
